---- MODULE Spec2Model ----
(***************************************************************************)
(* Model of pytest_httpserver/blocking_http_server.py: the rendezvous      *)
(* between BlockingHttpServer.dispatch (one call per connection thread)    *)
(* and BlockingHttpServer.assert_request / BlockingRequestHandler          *)
(* .respond_with_response (test threads).                                  *)
(*                                                                         *)
(* Every Queue.get(timeout=...) is two actions: the get itself, enabled    *)
(* when the queue holds an item, and the Empty exception, enabled when the *)
(* queue is empty (queue.Queue.get raises Empty only after finding the     *)
(* queue empty under its mutex).  When the timeout elapses is left open.   *)
(***************************************************************************)
EXTENDS Integers, Sequences, FiniteSets, TLC

\* ---- bounds ----
NumRequests == 2
NumCalls == 2
MaxResponds == 2

\* One Request object per dispatch call, numbered in the order the dispatch
\* calls begin; assert_request calls are numbered in the order they begin.
\* Calls of either kind overlap freely once begun.  A BlockingRequestHandler
\* is identified by the assert_request call that created it.
Requests == 1..NumRequests
Calls == 1..NumCalls
URIs == {"/a", "/b"}

\* a local not assigned yet: None where requests and handlers go, Unset elsewhere
None == 0
Unset == "unset"

VARIABLES
    request_queue,    \* self.request_queue: FIFO of requests
    request_handlers, \* keys of the dict self.request_handlers
    handler_queue,    \* handler_queue[r]: content of the Queue dispatch(r) stored in the dict
    response_queue,   \* response_queue[h]: content of handler h's response_queue
    assertions,       \* the error sink fed by add_assertion, in order
    dpc,              \* dpc[r]: position of dispatch(r)
    request_handler,  \* request_handler[r]: dispatch(r)'s local request_handler
    outcome,          \* outcome[r]: how dispatch(r) ended
    apc,              \* apc[c]: position of assert_request call c
    matcher,          \* matcher[c]: the uri call c expects
    request,          \* request[c]: assert_request's local request
    aresult,          \* aresult[c]: how call c ended
    unpopped,         \* history: the requests dispatch has published and no assert_request
                      \* has got yet, oldest first
    waiting_at_pop,   \* history: waiting_at_pop[c]: dispatch(request[c]) was still waiting
                      \* for a handler when call c got the request
    responds          \* history: responds[h]: the number of respond calls made on handler h

vars == <<request_queue, request_handlers, handler_queue, response_queue,
          assertions, dpc, request_handler, outcome, apc, matcher, request,
          aresult, unpopped, waiting_at_pop, responds>>

dvars == <<dpc, request_handler, outcome>>
avars == <<apc, matcher, request, aresult, waiting_at_pop>>

\* ---- collaborators outside blocking_http_server.py ----

\* HttpServerBase.respond_nohandler(request): the synthesized 500 response
\* describing the request.
respond_nohandler(r) == <<"nohandler", r>>

\* The path of request r: the connections ask for "/a" and "/b" in turn.
uri(r) == IF r % 2 = 1 THEN "/a" ELSE "/b"

\* HttpServerBase.create_matcher(uri, data=..., json=...): the matcher for the
\* uri, or a ValueError when both a raw body and a JSON value are given.
create_matcher(u, has_data, has_json) ==
    IF has_data /\ has_json THEN "ValueError" ELSE u

\* RequestMatcher.difference(request): empty iff the request matches.
difference(m, r) == IF m = uri(r) THEN <<>> ELSE <<"uri">>

Pending == [kind |-> "pending", value |-> <<>>]
Return(v) == [kind |-> "return", value |-> v]
Raise(e) == [kind |-> "raise", value |-> e]

Init ==
    /\ request_queue = <<>>
    /\ request_handlers = {}
    /\ handler_queue = [r \in Requests |-> <<>>]
    /\ response_queue = [h \in Calls |-> <<>>]
    /\ assertions = <<>>
    /\ dpc = [r \in Requests |-> "idle"]
    /\ request_handler = [r \in Requests |-> None]
    /\ outcome = [r \in Requests |-> Pending]
    /\ apc = [c \in Calls |-> "idle"]
    /\ matcher = [c \in Calls |-> Unset]
    /\ request = [c \in Calls |-> None]
    /\ aresult = [c \in Calls |-> Unset]
    /\ unpopped = <<>>
    /\ waiting_at_pop = [c \in Calls |-> FALSE]
    /\ responds = [h \in Calls |-> 0]

\* ---- BlockingHttpServer.dispatch ----

\* mutant: dispatch begins without creating the registry entry
DispatchRegisterNothing(r) ==
    /\ dpc[r] = "idle"
    /\ \A q \in Requests : q < r => dpc[q] # "idle"
    /\ dpc' = [dpc EXCEPT ![r] = "registered"]
    /\ UNCHANGED <<request_queue, request_handlers, handler_queue, response_queue,
                   assertions, request_handler, outcome, avars, unpopped, responds>>

\* line 139: self.request_handlers[request] = Queue()
DispatchRegister(r) ==
    /\ dpc[r] = "idle"
    /\ \A q \in Requests : q < r => dpc[q] # "idle"
    /\ request_handlers' = request_handlers \cup {r}
    /\ handler_queue' = [handler_queue EXCEPT ![r] = <<>>]
    /\ dpc' = [dpc EXCEPT ![r] = "registered"]
    /\ UNCHANGED <<request_queue, response_queue, assertions, request_handler,
                   outcome, avars, unpopped, responds>>

\* line 141: self.request_queue.put_nowait(request)
DispatchEnqueue(r) ==
    /\ dpc[r] = "registered"
    /\ request_queue' = Append(request_queue, r)
    /\ unpopped' = Append(unpopped, r)
    /\ dpc' = [dpc EXCEPT ![r] = "wait_handler"]
    /\ UNCHANGED <<request_handlers, handler_queue, response_queue, assertions,
                   request_handler, outcome, avars, responds>>

\* line 144: request_handler = self.request_handlers[request].get(timeout=self.timeout)
DispatchGetHandler(r) ==
    /\ dpc[r] = "wait_handler"
    /\ handler_queue[r] # <<>>
    /\ request_handler' = [request_handler EXCEPT ![r] = Head(handler_queue[r])]
    /\ handler_queue' = [handler_queue EXCEPT ![r] = Tail(handler_queue[r])]
    /\ dpc' = [dpc EXCEPT ![r] = "wait_response"]
    /\ UNCHANGED <<request_queue, request_handlers, response_queue, assertions,
                   outcome, avars, unpopped, responds>>

\* mutant: the no-handler timeout also reports to the error sink
DispatchNoHandlerRecords(r) ==
    /\ dpc[r] = "wait_handler"
    /\ handler_queue[r] = <<>>
    /\ assertions' = Append(assertions, r)
    /\ outcome' = [outcome EXCEPT ![r] = Return(respond_nohandler(r))]
    /\ dpc' = [dpc EXCEPT ![r] = "finally"]
    /\ UNCHANGED <<request_queue, request_handlers, handler_queue, response_queue,
                   request_handler, avars, unpopped, responds>>

\* mutant: the wait for a handler has no timeout
DispatchNoHandlerNever(r) ==
    /\ FALSE
    /\ dpc[r] = "wait_handler"
    /\ UNCHANGED vars

\* mutant: the no-handler timeout raises instead of returning the response
DispatchNoHandlerRaises(r) ==
    /\ dpc[r] = "wait_handler"
    /\ handler_queue[r] = <<>>
    /\ outcome' = [outcome EXCEPT ![r] = Raise("AssertionError")]
    /\ dpc' = [dpc EXCEPT ![r] = "finally"]
    /\ UNCHANGED <<request_queue, request_handlers, handler_queue, response_queue,
                   assertions, request_handler, avars, unpopped, responds>>

\* mutant: the Empty of the handler wait is swallowed and dispatch goes on
DispatchNoHandlerFallsThrough(r) ==
    /\ dpc[r] = "wait_handler"
    /\ handler_queue[r] = <<>>
    /\ dpc' = [dpc EXCEPT ![r] = "wait_response"]
    /\ UNCHANGED <<request_queue, request_handlers, handler_queue, response_queue,
                   assertions, request_handler, outcome, avars, unpopped, responds>>

\* mutant: the handler wait can time out although a handler is in the channel
DispatchNoHandlerEager(r) ==
    /\ dpc[r] = "wait_handler"
    /\ outcome' = [outcome EXCEPT ![r] = Return(respond_nohandler(r))]
    /\ dpc' = [dpc EXCEPT ![r] = "finally"]
    /\ UNCHANGED <<request_queue, request_handlers, handler_queue, response_queue,
                   assertions, request_handler, avars, unpopped, responds>>

\* lines 145-146: except Empty: return self.respond_nohandler(request)
DispatchNoHandler(r) ==
    /\ dpc[r] = "wait_handler"
    /\ handler_queue[r] = <<>>
    /\ outcome' = [outcome EXCEPT ![r] = Return(respond_nohandler(r))]
    /\ dpc' = [dpc EXCEPT ![r] = "finally"]
    /\ UNCHANGED <<request_queue, request_handlers, handler_queue, response_queue,
                   assertions, request_handler, avars, unpopped, responds>>

\* mutant: the response queue hands out its newest item
DispatchGetResponseNewest(r) ==
    /\ dpc[r] = "wait_response"
    /\ response_queue[request_handler[r]] # <<>>
    /\ LET q == response_queue[request_handler[r]] IN
          /\ outcome' = [outcome EXCEPT ![r] = Return(q[Len(q)])]
          /\ response_queue' = [response_queue EXCEPT
                                  ![request_handler[r]] = SubSeq(q, 1, Len(q) - 1)]
    /\ dpc' = [dpc EXCEPT ![r] = "finally"]
    /\ UNCHANGED <<request_queue, request_handlers, handler_queue, assertions,
                   request_handler, avars, unpopped, responds>>

\* mutant: dispatch empties the response queue and returns the last item
DispatchGetResponseDrain(r) ==
    /\ dpc[r] = "wait_response"
    /\ response_queue[request_handler[r]] # <<>>
    /\ LET q == response_queue[request_handler[r]] IN
          /\ outcome' = [outcome EXCEPT ![r] = Return(q[Len(q)])]
          /\ response_queue' = [response_queue EXCEPT ![request_handler[r]] = <<>>]
    /\ dpc' = [dpc EXCEPT ![r] = "finally"]
    /\ UNCHANGED <<request_queue, request_handlers, handler_queue, assertions,
                   request_handler, avars, unpopped, responds>>

\* line 149: return request_handler.response_queue.get(timeout=self.timeout)
DispatchGetResponse(r) ==
    /\ dpc[r] = "wait_response"
    /\ response_queue[request_handler[r]] # <<>>
    /\ outcome' = [outcome EXCEPT ![r] = Return(Head(response_queue[request_handler[r]]))]
    /\ response_queue' = [response_queue EXCEPT
                            ![request_handler[r]] = Tail(response_queue[request_handler[r]])]
    /\ dpc' = [dpc EXCEPT ![r] = "finally"]
    /\ UNCHANGED <<request_queue, request_handlers, handler_queue, assertions,
                   request_handler, avars, unpopped, responds>>

\* mutant: the no-response timeout records the failure and returns a response
DispatchNoResponseReturns(r) ==
    /\ dpc[r] = "wait_response"
    /\ response_queue[request_handler[r]] = <<>>
    /\ assertions' = Append(assertions, r)
    /\ outcome' = [outcome EXCEPT ![r] = Return(respond_nohandler(r))]
    /\ dpc' = [dpc EXCEPT ![r] = "finally"]
    /\ UNCHANGED <<request_queue, request_handlers, handler_queue, response_queue,
                   request_handler, avars, unpopped, responds>>

\* lines 150-153: except Empty: self.add_assertion(assertion); raise assertion
DispatchNoResponse(r) ==
    /\ dpc[r] = "wait_response"
    /\ response_queue[request_handler[r]] = <<>>
    /\ assertions' = Append(assertions, r)
    /\ outcome' = [outcome EXCEPT ![r] = Raise("AssertionError")]
    /\ dpc' = [dpc EXCEPT ![r] = "finally"]
    /\ UNCHANGED <<request_queue, request_handlers, handler_queue, response_queue,
                   request_handler, avars, unpopped, responds>>

\* mutant: the del is not in a finally clause, an exception skips it
DispatchFinallyOnReturn(r) ==
    /\ dpc[r] = "finally"
    /\ request_handlers' = IF outcome[r].kind = "return"
                           THEN request_handlers \ {r} ELSE request_handlers
    /\ dpc' = [dpc EXCEPT ![r] = "done"]
    /\ UNCHANGED <<request_queue, handler_queue, response_queue, assertions,
                   request_handler, outcome, avars, unpopped, responds>>

\* lines 154-155: finally: del self.request_handlers[request]
DispatchFinally(r) ==
    /\ dpc[r] = "finally"
    /\ request_handlers' = request_handlers \ {r}
    /\ dpc' = [dpc EXCEPT ![r] = "done"]
    /\ UNCHANGED <<request_queue, handler_queue, response_queue, assertions,
                   request_handler, outcome, avars, unpopped, responds>>

\* ---- BlockingHttpServer.assert_request ----

\* lines 98-107: matcher = self.create_matcher(uri, ...)
AssertCall(c, u) ==
    /\ apc[c] = "idle"
    /\ \A d \in Calls : d < c => apc[d] # "idle"
    /\ matcher' = [matcher EXCEPT ![c] = create_matcher(u, FALSE, FALSE)]
    /\ apc' = [apc EXCEPT ![c] = "get"]
    /\ UNCHANGED <<request_queue, request_handlers, handler_queue, response_queue,
                   assertions, dvars, request, aresult, unpopped, waiting_at_pop, responds>>

\* mutant: the expectation is built after the request has been got
AssertCallInvalidLate(c, u) ==
    /\ apc[c] = "idle"
    /\ \A d \in Calls : d < c => apc[d] # "idle"
    /\ create_matcher(u, TRUE, TRUE) = "ValueError"
    /\ request_queue # <<>>
    /\ request_queue' = Tail(request_queue)
    /\ unpopped' = SelectSeq(unpopped, LAMBDA q : q # Head(request_queue))
    /\ aresult' = [aresult EXCEPT ![c] = "ValueError"]
    /\ apc' = [apc EXCEPT ![c] = "done"]
    /\ UNCHANGED <<request_handlers, handler_queue, response_queue, assertions,
                   dvars, matcher, request, waiting_at_pop, responds>>

\* lines 98-107 when create_matcher rejects the arguments (data and json both
\* given): the exception leaves assert_request before line 109
AssertCallInvalid(c, u) ==
    /\ apc[c] = "idle"
    /\ \A d \in Calls : d < c => apc[d] # "idle"
    /\ create_matcher(u, TRUE, TRUE) = "ValueError"
    /\ aresult' = [aresult EXCEPT ![c] = "ValueError"]
    /\ apc' = [apc EXCEPT ![c] = "done"]
    /\ UNCHANGED <<request_queue, request_handlers, handler_queue, response_queue,
                   assertions, dvars, matcher, request, waiting_at_pop, unpopped, responds>>

\* mutant: the request is read and left on the queue
AssertGetRequestPeek(c) ==
    /\ apc[c] = "get"
    /\ request_queue # <<>>
    /\ request' = [request EXCEPT ![c] = Head(request_queue)]
    /\ unpopped' = SelectSeq(unpopped, LAMBDA q : q # Head(request_queue))
    /\ waiting_at_pop' = [waiting_at_pop EXCEPT ![c] = (dpc[Head(request_queue)] = "wait_handler")]
    /\ apc' = [apc EXCEPT ![c] = "lookup"]
    /\ UNCHANGED <<request_queue, request_handlers, handler_queue, response_queue,
                   assertions, dvars, matcher, aresult, responds>>

\* mutant: request_queue hands out its newest request
AssertGetRequestNewest(c) ==
    /\ apc[c] = "get"
    /\ request_queue # <<>>
    /\ LET n == Len(request_queue) IN
          /\ request' = [request EXCEPT ![c] = request_queue[n]]
          /\ request_queue' = SubSeq(request_queue, 1, n - 1)
          /\ unpopped' = SelectSeq(unpopped, LAMBDA q : q # request_queue[n])
          /\ waiting_at_pop' = [waiting_at_pop EXCEPT
                                  ![c] = (dpc[request_queue[n]] = "wait_handler")]
    /\ apc' = [apc EXCEPT ![c] = "lookup"]
    /\ UNCHANGED <<request_handlers, handler_queue, response_queue, assertions,
                   dvars, matcher, aresult, responds>>

\* line 110: request = self.request_queue.get(timeout=timeout)
AssertGetRequest(c) ==
    /\ apc[c] = "get"
    /\ request_queue # <<>>
    /\ request' = [request EXCEPT ![c] = Head(request_queue)]
    /\ request_queue' = Tail(request_queue)
    /\ unpopped' = SelectSeq(unpopped, LAMBDA q : q # Head(request_queue))
    /\ waiting_at_pop' = [waiting_at_pop EXCEPT ![c] = (dpc[Head(request_queue)] = "wait_handler")]
    /\ apc' = [apc EXCEPT ![c] = "lookup"]
    /\ UNCHANGED <<request_handlers, handler_queue, response_queue, assertions,
                   dvars, matcher, aresult, responds>>

\* mutant: the timed-out wait is also reported to the error sink
AssertNoRequestRecords(c) ==
    /\ apc[c] = "get"
    /\ request_queue = <<>>
    /\ assertions' = Append(assertions, None)
    /\ aresult' = [aresult EXCEPT ![c] = "NoRequestArrived"]
    /\ apc' = [apc EXCEPT ![c] = "done"]
    /\ UNCHANGED <<request_queue, request_handlers, handler_queue, response_queue,
                   dvars, matcher, request, waiting_at_pop, unpopped, responds>>

\* lines 111-112: except Empty: raise AssertionError("Waiting for request ... timed out")
AssertNoRequest(c) ==
    /\ apc[c] = "get"
    /\ request_queue = <<>>
    /\ aresult' = [aresult EXCEPT ![c] = "NoRequestArrived"]
    /\ apc' = [apc EXCEPT ![c] = "done"]
    /\ UNCHANGED <<request_queue, request_handlers, handler_queue, response_queue,
                   assertions, dvars, matcher, request, waiting_at_pop, unpopped, responds>>

\* lines 114-118, first half: request_handler = BlockingRequestHandler();
\* self.request_handlers[request] -- a KeyError when the key is gone
AssertLookup(c) ==
    /\ apc[c] = "lookup"
    /\ IF request[c] \in request_handlers
       THEN /\ apc' = [apc EXCEPT ![c] = "put"]
            /\ UNCHANGED aresult
       ELSE /\ apc' = [apc EXCEPT ![c] = "done"]
            /\ aresult' = [aresult EXCEPT ![c] = "KeyError"]
    /\ UNCHANGED <<request_queue, request_handlers, handler_queue, response_queue,
                   assertions, dvars, matcher, request, waiting_at_pop, unpopped, responds>>

\* mutant: the handler is put on the channel of whichever request is registered
AssertPutAnyChannel(c) ==
    /\ apc[c] = "put"
    /\ \E r \in request_handlers :
          handler_queue' = [handler_queue EXCEPT ![r] = Append(handler_queue[r], c)]
    /\ IF difference(matcher[c], request[c]) = <<>>
       THEN /\ apc' = [apc EXCEPT ![c] = "done"]
            /\ aresult' = [aresult EXCEPT ![c] = "returned"]
       ELSE /\ apc' = [apc EXCEPT ![c] = "nomatch"]
            /\ UNCHANGED aresult
    /\ UNCHANGED <<request_queue, request_handlers, response_queue, assertions,
                   dvars, matcher, request, waiting_at_pop, unpopped, responds>>

\* line 118, second half: .put_nowait(request_handler) on the Queue looked up;
\* lines 120, 124: with an empty diff, return request_handler
AssertPut(c) ==
    /\ apc[c] = "put"
    /\ handler_queue' = [handler_queue EXCEPT ![request[c]] = Append(handler_queue[request[c]], c)]
    /\ IF difference(matcher[c], request[c]) = <<>>
       THEN /\ apc' = [apc EXCEPT ![c] = "done"]
            /\ aresult' = [aresult EXCEPT ![c] = "returned"]
       ELSE /\ apc' = [apc EXCEPT ![c] = "nomatch"]
            /\ UNCHANGED aresult
    /\ UNCHANGED <<request_queue, request_handlers, response_queue, assertions,
                   dvars, matcher, request, waiting_at_pop, unpopped, responds>>

\* mutant: a request that did not match is put back for another assertion
AssertNoMatchRequeue(c) ==
    /\ apc[c] = "nomatch"
    /\ response_queue' = [response_queue EXCEPT
                            ![c] = Append(response_queue[c], respond_nohandler(request[c]))]
    /\ request_queue' = Append(request_queue, request[c])
    /\ unpopped' = Append(unpopped, request[c])
    /\ aresult' = [aresult EXCEPT ![c] = "RequestMismatch"]
    /\ apc' = [apc EXCEPT ![c] = "done"]
    /\ UNCHANGED <<request_handlers, handler_queue, assertions,
                   dvars, matcher, request, waiting_at_pop, responds>>

\* lines 121-122: request_handler.respond_with_response(self.respond_nohandler(request));
\* raise AssertionError("Request ... does not match")
AssertNoMatch(c) ==
    /\ apc[c] = "nomatch"
    /\ response_queue' = [response_queue EXCEPT
                            ![c] = Append(response_queue[c], respond_nohandler(request[c]))]
    /\ aresult' = [aresult EXCEPT ![c] = "RequestMismatch"]
    /\ apc' = [apc EXCEPT ![c] = "done"]
    /\ UNCHANGED <<request_queue, request_handlers, handler_queue, assertions,
                   dvars, matcher, request, waiting_at_pop, unpopped, responds>>

RECURSIVE Sum(_, _)
Sum(f, S) == IF S = {} THEN 0
             ELSE LET x == CHOOSE y \in S : TRUE IN f[x] + Sum(f, S \ {x})

\* the number of respond calls the tests have made so far
NumResponds == Sum(responds, Calls)

\* The Response objects the tests build: each respond call passes a fresh
\* one, named by the handler it is given to and the call's rank on that handler.
Response(h, i) == <<"response", h, i>>

\* mutant: response_queue holds one item and put waits for room
respond_with_response_bounded(h, resp) ==
    /\ aresult[h] = "returned"
    /\ response_queue[h] = <<>>
    /\ response_queue' = [response_queue EXCEPT ![h] = Append(response_queue[h], resp)]
    /\ responds' = [responds EXCEPT ![h] = responds[h] + 1]
    /\ UNCHANGED <<request_queue, request_handlers, handler_queue, assertions,
                   dvars, avars, unpopped>>

\* ---- BlockingRequestHandler.respond_with_response, called by the test on a
\* ---- handler that assert_request returned (lines 32-33)
respond_with_response(h, resp) ==
    /\ aresult[h] = "returned"
    /\ response_queue' = [response_queue EXCEPT ![h] = Append(response_queue[h], resp)]
    /\ responds' = [responds EXCEPT ![h] = responds[h] + 1]
    /\ UNCHANGED <<request_queue, request_handlers, handler_queue, assertions,
                   dvars, avars, unpopped>>

\* the test calls respond on a handler it holds, with a fresh Response
Respond(h) ==
    /\ NumResponds < MaxResponds
    /\ respond_with_response(h, Response(h, responds[h] + 1))

Dispatch(r) ==
    \/ DispatchRegister(r)
    \/ DispatchEnqueue(r)
    \/ DispatchGetHandler(r)
    \/ DispatchNoHandler(r)
    \/ DispatchGetResponse(r)
    \/ DispatchNoResponse(r)
    \/ DispatchFinally(r)

AssertRequest(c) ==
    \/ AssertGetRequest(c)
    \/ AssertNoRequest(c)
    \/ AssertLookup(c)
    \/ AssertPut(c)
    \/ AssertNoMatch(c)

Next ==
    \/ \E r \in Requests : Dispatch(r)
    \/ \E c \in Calls : \E u \in URIs : AssertCall(c, u)
    \/ \E c \in Calls : \E u \in URIs : AssertCallInvalid(c, u)
    \/ \E c \in Calls : AssertRequest(c)
    \/ \E h \in Calls : Respond(h)

Spec == Init /\ [][Next]_vars

\* A connection thread that has begun dispatch keeps running; so does a test
\* thread inside assert_request.  Whether a dispatch or an assert_request call
\* begins at all, and whether the test ever responds, is up to the environment.
DispatchRun(r) ==
    \/ DispatchEnqueue(r)
    \/ DispatchGetHandler(r)
    \/ DispatchNoHandler(r)
    \/ DispatchGetResponse(r)
    \/ DispatchNoResponse(r)
    \/ DispatchFinally(r)

FairSpec ==
    /\ Spec
    /\ \A r \in Requests : WF_vars(DispatchRun(r))
    /\ \A c \in Calls : WF_vars(AssertRequest(c))

\* ---- properties ----

\* dispatch(r) ended with one of its two timeouts
TimedOutNoHandler(r) == outcome[r] = Return(respond_nohandler(r)) /\ request_handler[r] = None
TimedOutNoResponse(r) == outcome[r].kind = "raise"

\* C1: no two assert_request calls that return a handler have got the same
\* request from request_queue, so a request is bound to at most one returned
\* handler.
C1_AtMostOnceMatching ==
    \A c1, c2 \in Calls :
        (c1 # c2 /\ aresult[c1] = "returned" /\ aresult[c2] = "returned")
            => request[c1] # request[c2]

C1_Witness ==
    \E c1, c2 \in Calls :
        /\ c1 # c2
        /\ aresult[c1] = "returned" /\ aresult[c2] = "returned"
        /\ request[c1] # request[c2]

\* C2: once dispatch(r) has finished, by whichever exit path, request_handlers
\* has no entry for r; when no dispatch call is in progress the registry is empty.
C2_RegistryCleanup ==
    /\ \A r \in Requests : dpc[r] = "done" => r \notin request_handlers
    /\ (\A r \in Requests : dpc[r] \in {"idle", "done"}) => request_handlers = {}

C2_Witness ==
    \E r1, r2 \in Requests :
        /\ dpc[r1] = "done" /\ TimedOutNoResponse(r1)
        /\ dpc[r2] = "done" /\ outcome[r2].kind = "return"
        /\ request_handlers = {}

\* C3 (as claimed): an assert_request call that gets a request whose registry
\* entry dispatch has already deleted does not fail because of the missing
\* entry: no call ends with the KeyError of the lookup in line 118.
C3_DeliveryToGoneEntryIsNoOp ==
    \A c \in Calls : aresult[c] # "KeyError"

RECURSIVE Count(_, _)
Count(seq, x) == IF seq = <<>> THEN 0
                 ELSE (IF Head(seq) = x THEN 1 ELSE 0) + Count(Tail(seq), x)

\* C5: dispatch(r) has put exactly one failure in the error sink if it received
\* a handler and then timed out waiting for the response, and none otherwise;
\* the sink holds as many failures as dispatch calls ended that way.
C5_DeferredFailureRecording ==
    /\ \A r \in Requests :
          Count(assertions, r) =
              IF request_handler[r] # None /\ TimedOutNoResponse(r) THEN 1 ELSE 0
    /\ Len(assertions) = Cardinality({r \in Requests : TimedOutNoResponse(r)})

C5_Witness ==
    \E r1, r2 \in Requests :
        /\ dpc[r1] = "done" /\ TimedOutNoResponse(r1) /\ Count(assertions, r1) = 1
        /\ dpc[r2] = "done" /\ TimedOutNoHandler(r2) /\ Count(assertions, r2) = 0

\* C6: when dispatch(r) waits on the response queue of a handler that a matching
\* assert_request returned and the test has responded, dispatch's next step
\* returns the first response the test supplied and records no failure; a
\* dispatch that has returned with such a handler has returned that response.
C6_SuccessfulRendezvous ==
    /\ [](\A r \in Requests :
            (/\ outcome[r].kind = "return"
             /\ request_handler[r] # None
             /\ aresult[request_handler[r]] = "returned")
                => /\ outcome[r].value = Response(request_handler[r], 1)
                   /\ Count(assertions, r) = 0)
    /\ [][\A r \in Requests :
            (/\ dpc[r] = "wait_response"
             /\ aresult[request_handler[r]] = "returned"
             /\ response_queue[request_handler[r]] # <<>>
             /\ dpc'[r] # "wait_response")
                => /\ outcome'[r] = Return(Response(request_handler[r], 1))
                   /\ assertions' = assertions]_vars

C6_Witness ==
    \E r \in Requests :
        /\ dpc[r] = "done"
        /\ request_handler[r] # None
        /\ aresult[request_handler[r]] = "returned"
        /\ outcome[r] = Return(Response(request_handler[r], 1))
        /\ assertions = <<>>

\* C7 (as claimed): a call that got a request r not matching its expectation
\* while dispatch(r) was still waiting for a handler ends with the mismatch
\* error, and dispatch(r) ends with the synthesized response, no failure
\* recorded for r.
C7_MismatchUnblocksCaller ==
    \A c \in Calls :
        (/\ apc[c] = "done"
         /\ request[c] # None
         /\ waiting_at_pop[c]
         /\ difference(matcher[c], request[c]) # <<>>)
            => /\ aresult[c] = "RequestMismatch"
               /\ outcome[request[c]] \in {Pending, Return(respond_nohandler(request[c]))}
               /\ Count(assertions, request[c]) = 0

\* C8: every dispatch call that has begun finishes, and every assert_request
\* call that has begun finishes.
C8_NoWaitHangs ==
    /\ \A r \in Requests : (dpc[r] # "idle") ~> (dpc[r] = "done")
    /\ \A c \in Calls : (apc[c] # "idle") ~> (apc[c] = "done")

C8_Witness ==
    /\ \E r \in Requests : dpc[r] = "done" /\ TimedOutNoHandler(r)
    /\ \E r \in Requests : dpc[r] = "done" /\ TimedOutNoResponse(r) /\ responds[request_handler[r]] = 0
    /\ \A c \in Calls : apc[c] = "done"

\* C9: every request an assert_request call gets from request_queue is the
\* oldest one published and not yet got; so the k-th get receives the k-th
\* request published, whichever threads are involved.
C9_FifoBinding ==
    [][\A c \in Calls :
          (apc[c] = "get" /\ apc'[c] = "lookup")
              => (unpopped # <<>> /\ request'[c] = Head(unpopped))]_vars

\* request 2, published before request 1, has been got while request 1 waits
C9_Witness ==
    /\ unpopped = <<1>>
    /\ \E c \in Calls : request[c] = 2 /\ apc[c] # "get"

\* C10: a respond call on a handler whose dispatch has timed out and finished
\* changes neither the registry, nor request_queue, nor any dispatch call's
\* position or outcome, nor the error sink; and such a call can always be made.
LateHandler(h) ==
    /\ aresult[h] = "returned"
    /\ dpc[request[h]] = "done"
    /\ (TimedOutNoResponse(request[h]) \/ TimedOutNoHandler(request[h]))

C10_LateResponseIsNoOp ==
    /\ [][\A h \in Calls :
            (LateHandler(h) /\ responds'[h] # responds[h])
                => /\ request_handlers' = request_handlers
                   /\ request_queue' = request_queue
                   /\ handler_queue' = handler_queue
                   /\ assertions' = assertions
                   /\ dvars' = dvars]_vars
    /\ [](\A h \in Calls :
            (LateHandler(h) /\ NumResponds < MaxResponds)
                => ENABLED respond_with_response(h, Response(h, responds[h] + 1)))

C10_Witness ==
    \E h \in Calls :
        /\ LateHandler(h)
        /\ responds[h] = 2
        /\ Len(response_queue[h]) = 2

\* the number of responses taken out of handler h's response queue so far,
\* for a handler the test holds (only respond calls fill its queue)
Taken(h) == responds[h] - Len(response_queue[h])

\* C11: at most one response is ever taken out of a handler's response queue,
\* and it is the first one the test supplied, returned by the dispatch call
\* that holds the handler; a second respond on the same handler can always be
\* made, it never waits.
C11_AtMostOneResponse ==
    /\ [](\A h \in Calls :
            aresult[h] = "returned"
                => /\ Taken(h) \in {0, 1}
                   /\ Taken(h) = 1
                        => \E r \in Requests :
                              /\ request_handler[r] = h
                              /\ outcome[r] = Return(Response(h, 1)))
    /\ [](\A h \in Calls :
            (aresult[h] = "returned" /\ responds[h] >= 1 /\ NumResponds < MaxResponds)
                => ENABLED respond_with_response(h, Response(h, responds[h] + 1)))

\* the test has responded twice before dispatch looked; dispatch returned the first
C11_Witness ==
    \E h \in Calls : \E r \in Requests :
        /\ aresult[h] = "returned"
        /\ responds[h] = 2
        /\ request_handler[r] = h
        /\ dpc[r] = "done"
        /\ outcome[r] = Return(Response(h, 1))
        /\ response_queue[h] = <<Response(h, 2)>>

\* C12: when the wait for a handler times out, dispatch returns the synthesized
\* no-handler response as its value: it raises nothing, goes to its cleanup
\* without waiting on any response queue, and adds nothing to the error sink.
C12_NoHandlerTimeout ==
    /\ [][\A r \in Requests :
            (/\ dpc[r] = "wait_handler"
             /\ handler_queue[r] = <<>>
             /\ dpc'[r] # "wait_handler")
                => /\ outcome'[r] = Return(respond_nohandler(r))
                   /\ dpc'[r] = "finally"
                   /\ request_handler'[r] = None
                   /\ assertions' = assertions
                   /\ response_queue' = response_queue]_vars
    /\ [](\A r \in Requests :
            (request_handler[r] = None /\ dpc[r] \in {"finally", "done"})
                => /\ TimedOutNoHandler(r)
                   /\ Count(assertions, r) = 0)

\* a request nobody claimed: still on request_queue when its dispatch is over
C12_Witness ==
    \E r \in Requests :
        /\ dpc[r] = "done"
        /\ TimedOutNoHandler(r)
        /\ \A c \in Calls : request[c] # r
        /\ assertions = <<>>

\* the requests on request_queue
InQueue == {request_queue[i] : i \in 1..Len(request_queue)}

\* handler h has been put on some registry channel or received by a dispatch
Delivered(h) ==
    \E r \in Requests :
        \/ request_handler[r] = h
        \/ \E i \in 1..Len(handler_queue[r]) : handler_queue[r][i] = h

\* C13: an assert_request call that finds request_queue empty until its timeout
\* fails with the no-request-arrived error; the step leaves request_queue, the
\* registry, its channels, the error sink and every dispatch as they were, and
\* the call has got no request and created no handler.
C13_NoRequestArrived ==
    /\ [][\A c \in Calls :
            (apc[c] = "get" /\ request_queue = <<>> /\ apc'[c] # "get")
                => /\ aresult'[c] = "NoRequestArrived"
                   /\ apc'[c] = "done"
                   /\ request_queue' = request_queue
                   /\ request_handlers' = request_handlers
                   /\ handler_queue' = handler_queue
                   /\ response_queue' = response_queue
                   /\ assertions' = assertions
                   /\ dvars' = dvars]_vars
    /\ [](\A c \in Calls :
            aresult[c] = "NoRequestArrived"
                => /\ request[c] = None
                   /\ ~Delivered(c)
                   /\ response_queue[c] = <<>>)

\* a call timed out while a dispatch had registered but not yet published
C13_Witness ==
    \E c \in Calls : \E r \in Requests :
        /\ aresult[c] = "NoRequestArrived"
        /\ dpc[r] = "registered"
        /\ request_handlers = {r}
        /\ assertions = <<>>

\* C14: a request is put on request_queue only when its registry entry
\* exists, so every request on the queue, and every request an assert_request
\* call has got, was registered before it became visible.
C14_RegisterBeforePublish ==
    /\ [][\A r \in Requests :
            (r \notin InQueue /\ r \in InQueue')
                => (r \in request_handlers /\ r \in request_handlers')]_vars
    /\ [](\A r \in Requests :
            (r \in InQueue \/ \E c \in Calls : request[c] = r)
                => dpc[r] \notin {"idle", "registered"})

\* a call holds a request it is about to look up, the entry is there
C14_Witness ==
    \E c \in Calls :
        /\ apc[c] = "lookup"
        /\ request[c] \in request_handlers
        /\ dpc[request[c]] = "wait_handler"

\* C15: an assert_request call whose expectation is rejected (raw body and
\* JSON both given) fails without getting a request: the step leaves
\* request_queue, the registry, its channels and every dispatch as they were,
\* the call holds no request and no handler, so the oldest queued request is
\* still the one the next call gets.
C15_RejectedExpectation ==
    /\ [][\A c \in Calls :
            (aresult[c] # "ValueError" /\ aresult'[c] = "ValueError")
                => /\ request_queue' = request_queue
                   /\ unpopped' = unpopped
                   /\ request_handlers' = request_handlers
                   /\ handler_queue' = handler_queue
                   /\ response_queue' = response_queue
                   /\ assertions' = assertions
                   /\ dvars' = dvars]_vars
    /\ [](\A c \in Calls :
            aresult[c] = "ValueError"
                => /\ request[c] = None
                   /\ ~Delivered(c)
                   /\ response_queue[c] = <<>>)

\* call 1 was rejected while request 2 then request 1 were queued; call 2,
\* begun later, got request 2, the oldest
C15_Witness ==
    /\ aresult[1] = "ValueError"
    /\ request[2] = 2
    /\ unpopped = <<1>>
    /\ dpc[2] = "wait_handler"

\* C16: a request is on request_queue at most once, and only between its
\* dispatch publishing it and an assert_request call getting it: a request a
\* call has got is not on the queue again and no other call holds it, whether
\* the call matched, mismatched or failed.
C16_EnqueuedOnce ==
    /\ \A i, j \in 1..Len(request_queue) :
          request_queue[i] = request_queue[j] => i = j
    /\ \A c \in Calls :
          request[c] # None
              => /\ request[c] \notin InQueue
                 /\ \A d \in Calls : request[d] = request[c] => d = c
    /\ \A r \in Requests : dpc[r] \in {"idle", "registered"} => r \notin InQueue

\* one call mismatched, one failed on the lookup: neither request is queued
C16_Witness ==
    \E c, d \in Calls :
        /\ aresult[c] = "RequestMismatch"
        /\ aresult[d] = "KeyError"
        /\ request_queue = <<>>

\* C17 (as claimed): every request on request_queue belongs to a dispatch call
\* still in progress whose registry entry exists; a finished dispatch leaves
\* no request behind on the queue.
C17_NoRequestLeaked ==
    \A r \in InQueue :
        /\ dpc[r] \notin {"idle", "done"}
        /\ r \in request_handlers

\* the positions of a dispatch call and the steps between them: registered
\* (entry created), wait_handler (request queued, awaiting a handler),
\* wait_response (handler assigned, awaiting the response), finally (outcome
\* fixed, cleanup pending), done
DispatchSteps ==
    {<<"idle", "registered">>, <<"registered", "wait_handler">>,
     <<"wait_handler", "wait_response">>, <<"wait_handler", "finally">>,
     <<"wait_response", "finally">>, <<"finally", "done">>}

Responded(r) == outcome[r].kind = "return" /\ request_handler[r] # None

\* C18: a dispatch call moves only along registered -> wait_handler ->
\* (wait_response -> outcome) or wait_handler -> no-handler outcome; it waits
\* for a response only with a handler it received, created for its own
\* request; once its outcome is fixed it is exactly one of responded,
\* timed out without handler, timed out without response; and nothing moves a
\* finished dispatch or changes its outcome.
C18_RequestStateMachine ==
    /\ [][\A r \in Requests :
            /\ dpc'[r] # dpc[r] => <<dpc[r], dpc'[r]>> \in DispatchSteps
            /\ dpc[r] \in {"finally", "done"}
                 => (outcome'[r] = outcome[r] /\ request_handler'[r] = request_handler[r])
            /\ dpc[r] = "done" => dpc'[r] = "done"]_vars
    /\ [](\A r \in Requests :
            /\ dpc[r] = "wait_response"
                 => (request_handler[r] # None /\ request[request_handler[r]] = r)
            /\ dpc[r] \in {"idle", "registered", "wait_handler", "wait_response"}
                 => outcome[r] = Pending
            /\ dpc[r] \in {"finally", "done"}
                 => Cardinality({k \in {"responded", "nohandler", "noresponse"} :
                        \/ k = "responded" /\ Responded(r)
                        \/ k = "nohandler" /\ TimedOutNoHandler(r)
                        \/ k = "noresponse" /\ TimedOutNoResponse(r) /\ request_handler[r] # None})
                    = 1)

\* the three terminal outcomes need three requests; with two, a finished
\* responded dispatch and a finished no-response one, after a late respond
C18_Witness ==
    \E r1, r2 \in Requests :
        /\ dpc[r1] = "done" /\ Responded(r1)
        /\ dpc[r2] = "done" /\ TimedOutNoResponse(r2)
        /\ responds[request_handler[r2]] = 1

\* the handlers that have been put on request r's registry channel
ChannelHandlers(r) ==
    {handler_queue[r][i] : i \in 1..Len(handler_queue[r])}
        \cup (IF request_handler[r] # None THEN {request_handler[r]} ELSE {})

\* C19: a dispatch call returns a response supplied through handler h only if
\* h was created for its own request; a registry channel only ever carries the
\* handler created for its request, one at most; and responses in handler h's
\* queue are h's own.
C19_ResponseIsolation ==
    /\ \A r \in Requests : \A h \in Calls : \A i \in 1..MaxResponds :
          outcome[r] = Return(Response(h, i))
              => (request[h] = r /\ request_handler[r] = h)
    /\ \A r \in Requests :
          /\ Cardinality(ChannelHandlers(r)) <= 1
          /\ Len(handler_queue[r]) <= 1
          /\ \A h \in ChannelHandlers(r) : request[h] = r
    /\ \A h \in Calls : \A i \in 1..Len(response_queue[h]) :
          response_queue[h][i] \in
              {Response(h, k) : k \in 1..MaxResponds} \cup {respond_nohandler(request[h])}

\* two dispatch calls in flight at once, each returned its own handler's response
C19_Witness ==
    \E h1, h2 \in Calls :
        /\ h1 # h2
        /\ request[h1] # None /\ request[h2] # None
        /\ outcome[request[h1]] = Return(Response(h1, 1))
        /\ outcome[request[h2]] = Return(Response(h2, 1))
        /\ dpc[request[h1]] = "finally" /\ dpc[request[h2]] = "finally"

\* C20 (as claimed): whenever assert_request has returned a handler for request
\* r, dispatch(r) has received it or is waiting and will receive it; it never
\* ends with the no-handler response.
C20_ReturnedHandlerConnected ==
    \A c \in Calls :
        aresult[c] = "returned"
            => /\ ~TimedOutNoHandler(request[c])
               /\ \/ request_handler[request[c]] = c
                  \/ dpc[request[c]] = "wait_handler" /\ handler_queue[request[c]] = <<c>>

\* C20 (amended): whenever assert_request has returned a handler for request
\* r, either dispatch(r) has received it and waits (or has waited) on its
\* response queue, or the handler is in r's channel with dispatch(r) waiting,
\* whose next step is then to receive it, or the handler wait of dispatch(r)
\* had already timed out when the handler was put: then the handler lies in
\* the abandoned channel and dispatch(r) ends with the no-handler response.
C20_ReturnedHandlerFate ==
    /\ [](\A c \in Calls :
            aresult[c] = "returned"
                => \/ /\ request_handler[request[c]] = c
                      /\ dpc[request[c]] \in {"wait_response", "finally", "done"}
                      /\ ~TimedOutNoHandler(request[c])
                   \/ /\ dpc[request[c]] = "wait_handler"
                      /\ handler_queue[request[c]] = <<c>>
                   \/ /\ dpc[request[c]] \in {"finally", "done"}
                      /\ TimedOutNoHandler(request[c])
                      /\ handler_queue[request[c]] = <<c>>)
    /\ [][\A r \in Requests :
            (dpc[r] = "wait_handler" /\ handler_queue[r] # <<>> /\ dpc'[r] # "wait_handler")
                => /\ dpc'[r] = "wait_response"
                   /\ request_handler'[r] = Head(handler_queue[r])]_vars

\* both fates: one returned handler was received, the other lies in the
\* channel of a dispatch that has ended with the no-handler response
C20_Witness ==
    \E c, d \in Calls :
        /\ aresult[c] = "returned" /\ aresult[d] = "returned"
        /\ request_handler[request[c]] = c
        /\ dpc[request[d]] = "done"
        /\ TimedOutNoHandler(request[d])
        /\ handler_queue[request[d]] = <<d>>

====
